---- MODULE Spec2Model ----
(***************************************************************************)
(* A model of src/src/lib.rs (crate apicall / funcall): the type-erased    *)
(* argument queue filled by Func::push and the hand-written trampolines    *)
(* Func::cdecl (x86 and x86_64 linux) and Func::stdcall (x86).             *)
(*                                                                         *)
(* Values are little-endian byte sequences: a machine word is a sequence   *)
(* of size_of::<usize>() bytes, least significant byte first.  The stack   *)
(* pointer is kept relative to its value when the Func is created, which   *)
(* is 16-byte aligned (the x86_64 asm block is marked "alignstack").       *)
(***************************************************************************)
EXTENDS Integers, Sequences, FiniteSets, TLC

VARIABLES
    arch,       \* cfg!(target_arch): "x86" or "x86_64"
    func,       \* Func.func: the callee behind the code address
    args,       \* Func.args: Vec<usize>
    fargs,      \* Func.fargs: Vec<f64>
    ret_low,    \* Func.ret_low
    ret_high,   \* Func.ret_high
    ret_float,  \* Func.ret_float
    sp,         \* the stack pointer of the calling thread, relative to its start
    atcall,     \* registers and stack as the callee found them at the last `call`,
                \* while no later code has overwritten them
    crashed,    \* the process was killed by a fault inside a trampoline
    ncalls,     \* number of trampoline runs so far
    lastpush,   \* history: type and value of the most recent push
    npush,      \* history: number of push calls so far
    spilled     \* history: 1-based indices of args that hold spilled floats

vars == <<arch, func, args, fargs, ret_low, ret_high, ret_float, sp, atcall,
          crashed, ncalls, lastpush, npush, spilled>>

(***************************************************************************)
(* Bounds of the model.                                                    *)
(***************************************************************************)
MaxPush == 2
MaxFloatPush == 10
MaxCallPush == 9
MaxCalls == 2

(***************************************************************************)
(* Bytes and words.                                                        *)
(***************************************************************************)
Archs == {"x86", "x86_64"}

Zeros(n) == [i \in 1..n |-> 0]
AllFF(n) == [i \in 1..n |-> 255]
Ramp(n) == [i \in 1..n |-> i]
HighRamp(n) == [i \in 1..n |-> 240 + i]

\* mem::size_of::<usize>()
size_of_usize == IF arch = "x86" THEN 4 ELSE 8

IntTypes == {"i8", "u8", "i16", "u16", "i32", "u32", "i64", "u64",
             "i128", "u128", "isize", "usize", "ptr"}
FloatTypes == {"f32", "f64"}
ArgTypes == IntTypes \cup FloatTypes

\* mem::size_of::<T>() for the types that implement ToArg
size_of(ty) ==
    CASE ty \in {"i8", "u8"} -> 1
      [] ty \in {"i16", "u16"} -> 2
      [] ty \in {"i32", "u32", "f32"} -> 4
      [] ty \in {"i64", "u64", "f64"} -> 8
      [] ty \in {"i128", "u128"} -> 16
      [] ty \in {"isize", "usize", "ptr"} -> size_of_usize

(***************************************************************************)
(* IEEE 754 binary32 -> binary64, as f64::from(f32) computes it: the value *)
(* is kept, the exponent is re-biased and the fraction moves to the top of *)
(* the 52-bit field; subnormals are normalised and a NaN is made quiet.    *)
(***************************************************************************)
Pow2(n) == IF n <= 0 THEN 1 ELSE 2 ^ n

f32_sign(b) == b[4] \div 128
f32_exp(b) == (b[4] % 128) * 2 + b[3] \div 128
f32_frac(b) == (b[3] % 128) * 65536 + b[2] * 256 + b[1]

\* the f64 whose fraction field is frac23 followed by 29 zero bits
f64_bits(sign, e, frac23) ==
    << 0, 0, 0,
       (frac23 % 8) * 32,
       (frac23 \div 8) % 256,
       (frac23 \div 2048) % 256,
       (e % 16) * 16 + frac23 \div 524288,
       sign * 128 + e \div 16 >>

RECURSIVE NormShift(_)
\* number of left shifts that bring a subnormal fraction's top bit to bit 23
NormShift(frac) == IF frac >= 8388608 THEN 0 ELSE 1 + NormShift(frac * 2)

f64_from(b) ==
    LET s == f32_sign(b)
        e == f32_exp(b)
        f == f32_frac(b)
    IN  IF e = 255 THEN
            f64_bits(s, 2047, IF f = 0 THEN 0 ELSE f + (IF f < 4194304 THEN 4194304 ELSE 0))
        ELSE IF e = 0 /\ f = 0 THEN f64_bits(s, 0, 0)
        ELSE IF e = 0 THEN
            LET k == NormShift(f)
            IN  f64_bits(s, 897 - k, (f * Pow2(k)) % 8388608)
        ELSE f64_bits(s, e + 896, f)

(***************************************************************************)
(* Func::push (lib.rs 87-123).                                             *)
(***************************************************************************)
\* lib.rs 90: the float queue takes the float while it holds fewer than 8
fargs_full_late(q) == Len(q) = 9
fargs_full(q) == Len(q) = 8

\* lib.rs 107-113: transmute_copy to the unsigned type of the same size, `as usize`
as_usize_sext(v) ==
    v \o [i \in 1..(size_of_usize - Len(v)) |-> IF v[Len(v)] >= 128 THEN 255 ELSE 0]
as_usize(v) == v \o Zeros(size_of_usize - Len(v))

\* lib.rs 118-120: the value's memory read as `len` machine words
from_raw_parts_rev(v, len) ==
    [i \in 1..len |-> SubSeq(v, (len - i) * size_of_usize + 1, (len - i + 1) * size_of_usize)]
from_raw_parts(v, len) ==
    [i \in 1..len |-> SubSeq(v, (i - 1) * size_of_usize + 1, i * size_of_usize)]

\* push with the new words put in front of the queue instead of behind it
push_front(self, ty, v) ==
    IF arch = "x86_64" /\ ~fargs_full(self.fargs) /\ ty \in FloatTypes THEN
        [self EXCEPT !.fargs = <<IF ty = "f32" THEN f64_from(v) ELSE v>> \o @]
    ELSE
        LET w == IF ty = "f32" THEN f64_from(v) ELSE v
        IN  IF Len(w) <= size_of_usize
            THEN [self EXCEPT !.args = <<as_usize(w)>> \o @]
            ELSE [self EXCEPT !.args = from_raw_parts(w, Len(w) \div size_of_usize) \o @]

RECURSIVE push(_, _, _)
\* self is the pair of queues; the result is the pair after self.push(arg)
push(self, ty, v) ==
    IF arch = "x86_64" /\ ~fargs_full(self.fargs) /\ ty = "f32" THEN
        [self EXCEPT !.fargs = Append(@, f64_from(v))]
    ELSE IF arch = "x86_64" /\ ~fargs_full(self.fargs) /\ ty = "f64" THEN
        [self EXCEPT !.fargs = Append(@, v)]
    ELSE IF ty = "f32" THEN
        push(self, "f64", f64_from(v))
    ELSE IF size_of(ty) <= size_of_usize THEN
        [self EXCEPT !.args = Append(@, as_usize(v))]
    ELSE
        [self EXCEPT !.args = @ \o from_raw_parts(v, size_of(ty) \div size_of_usize)]

(***************************************************************************)
(* Values pushed by the callers of the model.                              *)
(***************************************************************************)
F32_123_456 == <<121, 233, 246, 66>>                    \* 123.456f32 = 0x42F6E979
F32_m1 == <<0, 0, 128, 191>>                            \* -1.0f32    = 0xBF800000
F64_1234_5678 == <<173, 250, 92, 109, 69, 74, 147, 64>> \* 1234.5678f64
F64_m1 == <<0, 0, 0, 0, 0, 0, 240, 191>>                \* -1.0f64

Values(ty) ==
    CASE ty = "f32" -> {F32_123_456, F32_m1}
      [] ty = "f64" -> {F64_1234_5678, F64_m1}
      [] OTHER -> {AllFF(size_of(ty)), Ramp(size_of(ty))}

\* what the contents of a register or of memory nobody wrote are called
Unknown == << >>
\* the result of a read that the hardware refuses (page fault)
Fault == << -1 >>
\* a code address left in a scratch register by a jump-table dispatch
CodeAddr == << -2 >>

Gprs == {"rdi", "rsi", "rdx", "rcx", "r8", "r9"}
Xmms == 0..7

\* the machine at a trampoline's entry (lib.rs 134-136 and 172-176): the stack
\* pointer, the words pushed since entry (the word at [SP] first), the argument
\* registers, the operands $args, $len and $fargs (the pointers as element
\* offsets from as_ptr()), the scratch counters, and the offsets read from args
Entry ==
    [ conv |-> "none",
      entry_sp |-> sp, sp |-> sp, stk |-> << >>,
      gpr |-> [r \in Gprs |-> Unknown], xmm |-> [i \in Xmms |-> Unknown],
      args_p |-> Len(args) - 1, len_r |-> Len(args),
      fargs_p |-> Len(fargs) - 1, ebx |-> 0, r12 |-> 0,
      reads |-> << >>, fault |-> FALSE ]

\* no call was made yet
NoCall ==
    [ conv |-> "none",
      entry_sp |-> 0, sp |-> 0, stk |-> << >>,
      gpr |-> [r \in Gprs |-> Unknown], xmm |-> [i \in Xmms |-> Unknown],
      args_p |-> 0, len_r |-> 0, fargs_p |-> 0, ebx |-> 0, r12 |-> 0,
      reads |-> << >>, fault |-> FALSE ]

(***************************************************************************)
(* Callees.  A "cdecl" callee returns with the stack as it found it, a     *)
(* "stdcall" callee also pops the argument words of its signature, and an  *)
(* "identity" callee is `extern "C" fn(n: T) -> T { n }`                   *)
(* (tests/cdecl_func.rs 14-35).                                            *)
(***************************************************************************)
GenericCallees == {[kind |-> "cdecl", ty |-> "any"], [kind |-> "stdcall", ty |-> "any"]}
IdentityTypes == {"i8", "u8", "isize", "usize", "i64", "u64", "f32", "f64", "i128", "u128"}
IdentityCallees == {[kind |-> "identity", ty |-> t] : t \in IdentityTypes}

Start(callees) ==
    /\ arch \in Archs
    /\ func \in callees
    /\ func.kind = "stdcall" => arch = "x86"
    /\ func.ty \in {"i128", "u128"} => arch = "x86_64"
    /\ args = << >>
    /\ fargs = << >>
    /\ ret_low = Zeros(size_of_usize)
    /\ ret_high = Zeros(size_of_usize)
    /\ ret_float = Zeros(8)
    /\ sp = 0
    /\ atcall = NoCall
    /\ crashed = FALSE
    /\ ncalls = 0
    /\ lastpush = [ty |-> "none", v |-> << >>]
    /\ npush = 0
    /\ spilled = {}

\* Func::from_raw (lib.rs 75-84)
Init == Start({[kind |-> "cdecl", ty |-> "any"]})

Push(ty, v) ==
    /\ ~crashed
    /\ LET self == push([args |-> args, fargs |-> fargs], ty, v)
       IN  /\ args' = self.args
           /\ fargs' = self.fargs
           /\ spilled' = IF ty \in FloatTypes
                         THEN spilled \cup ((Len(args) + 1)..Len(self.args))
                         ELSE spilled
    /\ lastpush' = [ty |-> ty, v |-> v]
    /\ npush' = npush + 1
    \* push is compiled code: it overwrites the registers and the stack below sp
    /\ atcall' = NoCall
    /\ UNCHANGED <<arch, func, ret_low, ret_high, ret_float, sp, crashed, ncalls>>

\* pushes of every argument type
PushAny ==
    /\ npush < MaxPush
    /\ \E ty \in ArgTypes : \E v \in Values(ty) : Push(ty, v)

Next == PushAny

Spec == Init /\ [][Next]_vars

\* long runs of float pushes, with an integer in between
FloatMenu ==
    { [ty |-> "f32", v |-> F32_123_456],
      [ty |-> "f64", v |-> F64_1234_5678],
      [ty |-> "u32", v |-> Ramp(4)] }

PushFloats ==
    /\ npush < MaxFloatPush
    /\ \E a \in FloatMenu : Push(a.ty, a.v)

NextFloat == PushFloats

SpecFloat == Init /\ [][NextFloat]_vars

(***************************************************************************)
(* The trampolines.  A pointer operand is an element offset from           *)
(* as_ptr(); a read outside the Vec's elements is undefined behaviour and  *)
(* returns `oob`, which the caller of the operator chooses.                *)
(***************************************************************************)
deref(q, p, oob) == IF p \in 0..(Len(q) - 1) THEN q[p + 1] ELSE oob

\* what a read outside the elements of args can do: for an empty Vec the
\* pointer is the dangling as_ptr() minus one word, so the read faults or
\* returns whatever is mapped there
OobOutcomes == IF Len(args) = 0 THEN {Fault, AllFF(size_of_usize)} ELSE {Unknown}

RECURSIVE cdecl_x86_L(_, _)
\* lib.rs 145-149: push dword ptr [$args]; sub $args, 4; dec ebx; jns .L
cdecl_x86_L(m, oob) ==
    LET w == deref(args, m.args_p, oob)
        m1 == [m EXCEPT !.stk = <<w>> \o @, !.sp = @ - 4, !.args_p = @ - 1,
                        !.ebx = @ - 1, !.reads = Append(@, m.args_p)]
    IN  IF w = Fault THEN [m EXCEPT !.fault = TRUE, !.reads = Append(@, m.args_p)]
        ELSE IF m1.ebx >= 0 THEN cdecl_x86_L(m1, oob)
        ELSE m1

\* lib.rs 143-149: the machine of cdecl (x86) when it reaches `call $func`
cdecl_x86_at_call(oob) ==
    cdecl_x86_L([Entry EXCEPT !.conv = "cdecl", !.ebx = Len(args) - 1], oob)

RECURSIVE stdcall_L(_, _)
\* lib.rs 315-319: push dword ptr [$args]; sub $args, 4; dec ebx; jns .L
stdcall_L(m, oob) ==
    LET w == deref(args, m.args_p, oob)
        m1 == [m EXCEPT !.stk = <<w>> \o @, !.sp = @ - 4, !.args_p = @ - 1,
                        !.ebx = @ - 1, !.reads = Append(@, m.args_p)]
    IN  IF w = Fault THEN [m EXCEPT !.fault = TRUE, !.reads = Append(@, m.args_p)]
        ELSE IF m1.ebx >= 0 THEN stdcall_L(m1, oob)
        ELSE m1

\* lib.rs 313-319: the machine of stdcall when it reaches `call $func`
stdcall_at_call(oob) ==
    stdcall_L([Entry EXCEPT !.conv = "stdcall", !.ebx = Len(args) - 1], oob)

\* lib.rs 197-206: the jump table .LFLABELS, entry i is the label .LARGi
LFLABELS(flen) == flen

RECURSIVE LARG(_, _)
\* lib.rs 208-231: the code from label .LARGk on: movsd xmm(k-1), [$fargs];
\* sub $fargs, 8 (not after the last load); fall through to .LARG(k-1)
LARG(m, k) ==
    IF k = 0 THEN m
    ELSE LARG([m EXCEPT !.xmm[k - 1] = deref(fargs, m.fargs_p, Unknown),
                        !.fargs_p = IF k > 1 THEN @ - 1 ELSE @], k - 1)

RECURSIVE LPUSH(_)
\* lib.rs 235-242: while $len > 6: push qword ptr [$args]; sub $args, 8;
\* inc r12; dec $len
LPUSH(m) ==
    IF m.len_r <= 6 THEN m
    ELSE LPUSH([m EXCEPT !.stk = <<deref(args, m.args_p, Unknown)>> \o @,
                         !.sp = @ - 8, !.args_p = @ - 1, !.r12 = @ + 1,
                         !.len_r = @ - 1, !.reads = Append(@, m.args_p)])

\* lib.rs 250-257: the jump table .LABELS, entry i is the label .Li (.LCALL for 0)
LABELS_shifted(len) == IF len > 0 THEN len - 1 ELSE 0
LABELS(len) == len

\* lib.rs 259-275: the register loaded at label .Lk
StairGpr(k) ==
    CASE k = 6 -> "r9" [] k = 5 -> "r8" [] k = 4 -> "rcx"
      [] k = 3 -> "rdx" [] k = 2 -> "rsi" [] k = 1 -> "rdi"

RECURSIVE L(_, _)
\* lib.rs 259-275: the code from label .Lk on: mov reg, [$args]; sub $args, 8
\* (not after the last load); fall through to .L(k-1)
L(m, k) ==
    IF k = 0 THEN m
    ELSE L([m EXCEPT !.gpr[StairGpr(k)] = deref(args, m.args_p, Unknown),
                     !.args_p = IF k > 1 THEN @ - 1 ELSE @,
                     !.reads = Append(@, m.args_p)], k - 1)

\* lib.rs 192-195 and 245-248: lea rdi, [rip + table]; movsxd rsi, [rdi + i*4];
\* add rsi, rdi; jmp rsi
Dispatch(m) == [m EXCEPT !.gpr["rdi"] = CodeAddr, !.gpr["rsi"] = CodeAddr]

\* lib.rs 192-275: the machine of cdecl (x86_64) when it reaches `call $func`
cdecl_x86_64_at_call ==
    LET m1 == LARG(Dispatch([Entry EXCEPT !.conv = "cdecl"]), LFLABELS(Len(fargs)))
        m2 == LPUSH([m1 EXCEPT !.r12 = 0])
    IN  L(Dispatch(m2), LABELS(m2.len_r))

(***************************************************************************)
(* What a callee leaves behind: the two integer return registers, the      *)
(* float return register (x87 st(0) as the f64 the output operand stores,  *)
(* or xmm0) and the stack pointer after its `ret`.                         *)
(***************************************************************************)
\* how a callee leaves the register bytes its return type does not define
Junk == {"keep", "zero", "ones"}

\* a register of n bytes whose low bytes are p and whose other bytes are junk
RegAfter(p, reg, n, j) ==
    p \o (IF j = "keep" /\ Len(reg) = n THEN SubSeq(reg, Len(p) + 1, n)
          ELSE IF j = "ones" THEN AllFF(n - Len(p))
          ELSE Zeros(n - Len(p)))

\* any function of the convention: two of the results it may return
GenericResults ==
    { [lo |-> Ramp(size_of_usize), hi |-> HighRamp(size_of_usize), fp |-> F64_1234_5678],
      [lo |-> AllFF(size_of_usize), hi |-> Ramp(size_of_usize), fp |-> F64_m1] }

\* tests/cdecl_func.rs 14-35 under the System V AMD64 convention
IdentityResults64(m, ty, j) ==
    LET rdi == m.gpr["rdi"]
        xmm0 == m.xmm[0]
    IN  CASE ty \in {"i128", "u128"} ->
               [lo |-> rdi, hi |-> m.gpr["rsi"], fp |-> RegAfter(<< >>, xmm0, 8, j)]
          [] ty = "f32" ->
               [lo |-> RegAfter(<< >>, Unknown, 8, j), hi |-> RegAfter(<< >>, m.gpr["rdx"], 8, j),
                fp |-> RegAfter(SubSeq(xmm0, 1, 4), xmm0, 8, j)]
          [] ty = "f64" ->
               [lo |-> RegAfter(<< >>, Unknown, 8, j), hi |-> RegAfter(<< >>, m.gpr["rdx"], 8, j),
                fp |-> xmm0]
          [] OTHER ->
               [lo |-> RegAfter(SubSeq(rdi, 1, size_of(ty)), rdi, 8, j),
                hi |-> RegAfter(<< >>, m.gpr["rdx"], 8, j),
                fp |-> RegAfter(<< >>, xmm0, 8, j)]

\* tests/cdecl_func.rs 14-35 under the i386 cdecl convention: the parameter is
\* at [esp+4] on entry, a float result is returned in st(0)
IdentityResults32(m, ty, j) ==
    CASE ty \in {"i64", "u64"} ->
           [lo |-> m.stk[1], hi |-> m.stk[2], fp |-> RegAfter(<< >>, Unknown, 8, j)]
      [] ty = "f32" ->
           [lo |-> RegAfter(<< >>, Unknown, 4, j), hi |-> RegAfter(<< >>, Unknown, 4, j),
            fp |-> f64_from(m.stk[1])]
      [] ty = "f64" ->
           [lo |-> RegAfter(<< >>, Unknown, 4, j), hi |-> RegAfter(<< >>, Unknown, 4, j),
            fp |-> m.stk[1] \o m.stk[2]]
      [] OTHER ->
           [lo |-> RegAfter(SubSeq(m.stk[1], 1, size_of(ty)), m.stk[1], 4, j),
            hi |-> RegAfter(<< >>, Unknown, 4, j),
            fp |-> RegAfter(<< >>, Unknown, 8, j)]

\* the results func may return to the machine m standing at `call`
Returns(m) ==
    IF func.kind = "identity" THEN
        { IF arch = "x86" THEN IdentityResults32(m, func.ty, j)
          ELSE IdentityResults64(m, func.ty, j) : j \in Junk }
    ELSE GenericResults

\* the stack pointer after the callee's `ret`: a stdcall callee pops the
\* argument words of its signature (`ret 4*N`), any other callee pops nothing
SpAfterRet(m) == IF func.kind = "stdcall" THEN m.sp + 4 * Len(args) ELSE m.sp

\* the caller's obligation (lib.rs 125-128, 295-298 `unsafe`): the pushed
\* arguments are the callee's parameters
SignatureMatches ==
    func.kind = "identity" => (npush = 1 /\ lastpush.ty = func.ty)

\* Func::cdecl for x86 (lib.rs 127-162)
cdecl_x86 ==
    /\ arch = "x86"
    /\ ~crashed
    /\ ncalls < MaxCalls
    /\ func.kind \in {"cdecl", "identity"}
    /\ SignatureMatches
    /\ \E oob \in OobOutcomes :
          LET m == cdecl_x86_at_call(oob)
          IN  IF m.fault
              THEN /\ crashed' = TRUE
                   /\ UNCHANGED <<ret_low, ret_high, ret_float, sp, atcall>>
              ELSE \E r \in Returns(m) :
                      /\ atcall' = m
                      \* mov ebx, $len; shl ebx, 2; add esp, ebx (a Vec<usize>
                      \* holds fewer than 2^29 words, so the shift loses no bit)
                      /\ sp' = SpAfterRet(m) + Len(args) * 4
                      /\ ret_low' = r.lo
                      /\ ret_high' = r.hi
                      /\ ret_float' = r.fp
                      /\ UNCHANGED crashed
    /\ ncalls' = ncalls + 1
    /\ UNCHANGED <<arch, func, args, fargs, lastpush, npush, spilled>>

\* Func::stdcall (lib.rs 297-328)
stdcall ==
    /\ arch = "x86"
    /\ ~crashed
    /\ ncalls < MaxCalls
    /\ func.kind = "stdcall"
    /\ \E oob \in OobOutcomes :
          LET m == stdcall_at_call(oob)
          IN  IF m.fault
              THEN /\ crashed' = TRUE
                   /\ UNCHANGED <<ret_low, ret_high, ret_float, sp, atcall>>
              ELSE \E r \in Returns(m) :
                      /\ atcall' = m
                      /\ sp' = SpAfterRet(m)
                      /\ ret_low' = r.lo
                      /\ ret_high' = r.hi
                      /\ ret_float' = r.fp
                      /\ UNCHANGED crashed
    /\ ncalls' = ncalls + 1
    /\ UNCHANGED <<arch, func, args, fargs, lastpush, npush, spilled>>

\* Func::cdecl for x86_64 linux (lib.rs 165-293)
cdecl_x86_64 ==
    /\ arch = "x86_64"
    /\ ~crashed
    /\ ncalls < MaxCalls
    /\ func.kind \in {"cdecl", "identity"}
    /\ SignatureMatches
    /\ LET m == cdecl_x86_64_at_call
       IN  \E r \in Returns(m) :
              /\ atcall' = m
              \* cmp r12, 0; jz .LEND; shl r12, 3; add rsp, r12
              /\ sp' = IF m.r12 = 0 THEN SpAfterRet(m) ELSE SpAfterRet(m) + m.r12 * 8
              /\ ret_low' = r.lo
              /\ ret_high' = r.hi
              /\ ret_float' = r.fp
    /\ ncalls' = ncalls + 1
    /\ UNCHANGED <<arch, func, args, fargs, crashed, lastpush, npush, spilled>>

(***************************************************************************)
(* The typed return accessors ret_as_T used by tests/tests.rs 69-169.      *)
(***************************************************************************)
f64_sign(b) == b[8] \div 128
f64_exp(b) == (b[8] % 128) * 16 + b[7] \div 16
\* the top 23 and the low 29 bits of the 52-bit fraction
f64_frac_hi(b) == (b[7] % 16) * 524288 + b[6] * 2048 + b[5] * 8 + b[4] \div 32
f64_frac_lo(b) == (b[4] % 32) * 16777216 + b[3] * 65536 + b[2] * 256 + b[1]

\* the f32 with the given sign and the 31 low bits r (exponent and fraction)
f32_bits(sign, r) ==
    << r % 256, (r \div 256) % 256, (r \div 65536) % 256, sign * 128 + r \div 16777216 >>

\* IEEE 754 binary64 -> binary32, round to nearest, ties to even
f32_from(b) ==
    LET s == f64_sign(b)
        e == f64_exp(b)
        hi == f64_frac_hi(b)
        lo == f64_frac_lo(b)
        e32 == e - 896
        inf == 255 * 8388608
    IN  IF e = 2047 THEN
            f32_bits(s, inf + (IF hi = 0 /\ lo = 0 THEN 0
                               ELSE IF hi < 4194304 THEN hi + 4194304 ELSE hi))
        ELSE IF e32 >= 255 THEN f32_bits(s, inf)
        ELSE IF e32 >= 1 THEN
            LET up == lo > 268435456 \/ (lo = 268435456 /\ hi % 2 = 1)
            IN  f32_bits(s, e32 * 8388608 + hi + (IF up THEN 1 ELSE 0))
        ELSE IF e = 0 \/ e32 < -24 THEN f32_bits(s, 0)
        ELSE
            LET shift == 1 - e32
                sig == 8388608 + hi
                q == sig \div Pow2(shift)
                rem == sig % Pow2(shift)
                half == Pow2(shift - 1)
                up == rem > half \/ (rem = half /\ (lo > 0 \/ q % 2 = 1))
            IN  f32_bits(s, q + (IF up THEN 1 ELSE 0))

\* ret_as_T: an integer no wider than the word is the low bytes of ret_low, a
\* wider integer is ret_high:ret_low, f64 is ret_float, f32 is ret_float narrowed
ret_as(ty) ==
    CASE ty = "f64" -> ret_float
      [] ty = "f32" -> f32_from(ret_float)
      [] ty \notin FloatTypes /\ size_of(ty) <= size_of_usize -> SubSeq(ret_low, 1, size_of(ty))
      [] OTHER -> ret_low \o ret_high

\* the k-th argument of a call: the word k, or the double 1.0 + k ulp, as in
\* `for i in 1..=8 { func.push(i) }` (tests/tests.rs 33-35)
Numbered(ty, k) ==
    IF ty = "f64" THEN <<k, 0, 0, 0, 0, 0, 240, 63>>
    ELSE <<k>> \o Zeros(size_of(ty) - 1)

PushCall ==
    /\ npush < MaxCallPush
    /\ \E ty \in {"usize", "f64"} : Push(ty, Numbered(ty, npush + 1))

InitCall == Start(GenericCallees)

NextCall == PushCall \/ cdecl_x86 \/ cdecl_x86_64 \/ stdcall

SpecCall == InitCall /\ [][NextCall]_vars

\* one Func per identity function of tests/cdecl_func.rs
InitRound == Start(IdentityCallees)

NextRound == PushAny \/ cdecl_x86 \/ cdecl_x86_64

SpecRound == InitRound /\ [][NextRound]_vars

(***************************************************************************)
(* Properties of push.                                                     *)
(***************************************************************************)
\* IEEE 754 facts used to state the expected widenings independently of f64_from:
\* 123.456f32 = 0x42F6E979 is the double 0x405EDD2F20000000, and -1.0f32 is -1.0f64.
WidenTable(v) ==
    CASE v = F32_123_456 -> <<0, 0, 0, 32, 47, 221, 94, 64>>
      [] v = F32_m1 -> <<0, 0, 0, 0, 0, 0, 240, 191>>

\* the bit pattern a pushed value is stored with (an f32 is stored as an f64)
StoredPattern(p) == IF p.ty = "f32" THEN WidenTable(p.v) ELSE p.v

IsPushStep == npush' = npush + 1

\* C6: fp_queue never holds more than 8 floats and holds none on a 32-bit host;
\* on a 64-bit host a pushed float is appended to fp_queue alone while it holds
\* fewer than 8 (an f32 converted by value), and otherwise leaves fp_queue as it is
\* and appends to gp_queue the one word that is its 8-byte pattern as a double.
C6_FpQueueBound ==
    /\ Len(fargs) <= 8
    /\ [][ /\ Len(fargs') <= 8
           /\ (arch = "x86" => fargs' = << >>)
           /\ (IsPushStep /\ arch = "x86_64" /\ lastpush'.ty \in FloatTypes) =>
                 IF Len(fargs) < 8
                 THEN /\ fargs' = Append(fargs, StoredPattern(lastpush'))
                      /\ args' = args
                 ELSE /\ fargs' = fargs
                      /\ args' = Append(args, StoredPattern(lastpush')) ]_vars

C6_Witness ==
    /\ arch = "x86_64"
    /\ Len(fargs) = 8
    /\ lastpush = [ty |-> "f32", v |-> F32_123_456]
    /\ Len(args) > 1
    /\ args[Len(args)] = <<0, 0, 0, 32, 47, 221, 94, 64>>
    /\ Len(args) \in spilled

\* C7: a non-float value no wider than the machine word is pushed as exactly one
\* word: its own bytes in the low positions and zero in every higher position
\* (no sign extension); the words already queued and fp_queue stay as they are.
C7_ZeroExtension ==
    [][ (IsPushStep /\ lastpush'.ty \in IntTypes /\ size_of(lastpush'.ty) <= size_of_usize) =>
          /\ Len(args') = Len(args) + 1
          /\ SubSeq(args', 1, Len(args)) = args
          /\ fargs' = fargs
          /\ Len(args'[Len(args')]) = size_of_usize
          /\ \A i \in 1..size_of_usize :
                args'[Len(args')][i] =
                    IF i <= size_of(lastpush'.ty) THEN lastpush'.v[i] ELSE 0 ]_vars

C7_Witness ==
    /\ arch = "x86_64"
    /\ lastpush = [ty |-> "i8", v |-> <<255>>]
    /\ Len(args) = 2
    /\ args[2] = <<255, 0, 0, 0, 0, 0, 0, 0>>

\* the size in bytes a pushed value is stored with
StoredSize(p) == IF p.ty = "f32" THEN 8 ELSE size_of(p.ty)

\* C8: a value wider than the machine word (an f32 counting as the f64 it is
\* widened to) is pushed as ceil(size/word) words appended to gp_queue, the k-th
\* of them holding bytes (k-1)*word .. k*word-1 of the value's little-endian
\* pattern; the words already queued stay as they are.
C8_WideSplit ==
    [][ (/\ IsPushStep
         /\ lastpush'.ty \in ArgTypes
         /\ StoredSize(lastpush') > size_of_usize) =>
          LET n == (StoredSize(lastpush') + size_of_usize - 1) \div size_of_usize
              pat == StoredPattern(lastpush')
          IN  /\ Len(args') = Len(args) + n
              /\ SubSeq(args', 1, Len(args)) = args
              /\ \A k \in 1..n :
                    /\ Len(args'[Len(args) + k]) = size_of_usize
                    /\ \A j \in 1..size_of_usize :
                          args'[Len(args) + k][j] = pat[(k - 1) * size_of_usize + j] ]_vars

C8_Witness ==
    /\ arch = "x86"
    /\ lastpush = [ty |-> "f32", v |-> F32_123_456]
    /\ Len(args) = 3
    /\ args[2] = <<0, 0, 0, 32>>
    /\ args[3] = <<47, 221, 94, 64>>

(***************************************************************************)
(* Properties of the trampolines.                                          *)
(***************************************************************************)
Max(a, b) == IF a > b THEN a ELSE b

\* a call has returned and nothing has run since
JustCalled(conv) == ~crashed /\ atcall.conv = conv

\* C1: after a cdecl call (i386 or x86-64) whose callee returned with the stack
\* as it found it, the stack pointer is where it was at the trampoline's entry,
\* for every gp_queue length including 0; so it never moves away from its start.
C1_StackCleanup ==
    (JustCalled("cdecl") /\ func.kind = "cdecl") =>
        (sp = atcall.entry_sp /\ sp = 0)

\* C2: on x86-64, with RSP 16-byte aligned at the trampoline's entry, RSP is
\* 16-byte aligned at the `call`, whatever the lengths of the two queues.
C2_StackAligned ==
    (arch = "x86_64" /\ JustCalled("cdecl") /\ atcall.entry_sp % 16 = 0) =>
        atcall.sp % 16 = 0

\* C3: on x86-64 every float argument from the ninth on is, at the `call`, in a
\* stack slot as its 8-byte pattern and in none of the integer registers.
C3_FloatSpillOnStack ==
    (arch = "x86_64" /\ JustCalled("cdecl")) =>
        \A i \in spilled :
            /\ \A r \in Gprs : atcall.gpr[r] # args[i]
            /\ \E j \in 1..Len(atcall.stk) : atcall.stk[j] = args[i]

\* the System V AMD64 integer argument registers, first argument first
SysVIntRegs == <<"rdi", "rsi", "rdx", "rcx", "r8", "r9">>

\* C4: on x86-64, at the `call`, the k-th integer register holds gp_queue[k] for
\* k up to min(6, n), XMM(k) holds fp_queue[k] for k < F, gp_queue[k] for
\* 6 <= k < n is the word at RSP + 8*(k-6), pushed since entry, and no other
\* argument register holds a word loaded from a queue.
C4_OrderPreserved ==
    (arch = "x86_64" /\ JustCalled("cdecl")) =>
        LET n == Len(args)
            F == Len(fargs)
        IN  /\ \A k \in 1..6 :
                  IF k <= n THEN atcall.gpr[SysVIntRegs[k]] = args[k]
                  ELSE atcall.gpr[SysVIntRegs[k]] \in {Unknown, CodeAddr}
            /\ \A k \in Xmms :
                  atcall.xmm[k] = IF k < F THEN fargs[k + 1] ELSE Unknown
            /\ atcall.sp = atcall.entry_sp - 8 * Max(0, n - 6)
            /\ Len(atcall.stk) = Max(0, n - 6)
            /\ \A k \in 7..n : atcall.stk[k - 6] = args[k]

C4_Witness ==
    /\ arch = "x86_64"
    /\ JustCalled("cdecl")
    /\ Len(args) = 8
    /\ Len(fargs) = 1
    /\ atcall.gpr["r9"] = <<6, 0, 0, 0, 0, 0, 0, 0>>
    /\ atcall.stk = << <<7, 0, 0, 0, 0, 0, 0, 0>>, <<9, 0, 0, 0, 0, 0, 0, 0>> >>
    /\ atcall.xmm[0] = <<8, 0, 0, 0, 0, 0, 240, 63>>

\* C5: an identity function of type T called through cdecl() with v as the only
\* pushed argument gives back v, bit for bit, through ret_as_T.
C5_RoundTrip ==
    (/\ func.kind = "identity"
     /\ JustCalled("cdecl")
     /\ npush = 1
     /\ lastpush.ty = func.ty) =>
        ret_as(func.ty) = lastpush.v

\* C9: stdcall puts on the stack what cdecl puts there, captures the same three
\* slots and adjusts no stack pointer, so with a callee that pops its 4*N
\* argument bytes the stack pointer is back at its entry value.
C9_StdcallAsCdecl ==
    JustCalled("stdcall") =>
        /\ \A oob \in OobOutcomes :
              /\ stdcall_at_call(oob).stk = cdecl_x86_at_call(oob).stk
              /\ stdcall_at_call(oob).sp = cdecl_x86_at_call(oob).sp
        /\ \E r \in GenericResults :
              ret_low = r.lo /\ ret_high = r.hi /\ ret_float = r.fp
        /\ sp = atcall.entry_sp

\* C10: the i386 trampolines read gp_queue[N-1] down to gp_queue[0] and nothing
\* else, and at the `call` exactly N words are pushed, gp_queue[k] at ESP + 4*k.
C10_RightToLeft ==
    (arch = "x86" /\ (JustCalled("cdecl") \/ JustCalled("stdcall"))) =>
        LET N == Len(args)
        IN  /\ atcall.reads = [i \in 1..N |-> N - i]
            /\ Len(atcall.stk) = N
            /\ atcall.sp = atcall.entry_sp - 4 * N
            /\ \A k \in 0..(N - 1) : atcall.stk[k + 1] = args[k + 1]


(***************************************************************************)
(* Frame of push and of the calls.                                         *)
(***************************************************************************)
IsCallStep == ncalls' = ncalls + 1

IsPrefix(q, r) == Len(q) <= Len(r) /\ SubSeq(r, 1, Len(q)) = q

\* the argument registers and argument words a callee is presented with: on
\* x86 the Len(args) words at [ESP], on x86_64 the registers and the spilled words
ArgLayout(m) ==
    [ gpr |-> m.gpr, xmm |-> m.xmm,
      stk |-> IF arch = "x86" THEN SubSeq(m.stk, 1, Len(args)) ELSE m.stk ]

\* C11: cdecl() and stdcall() leave target, gp_queue and fp_queue as they are
\* (so a call made right after a call presents the callee with the same
\* registers and argument words); push leaves target and the three return slots
\* as they are, changes exactly one of the two queues and only by appending to
\* it; and the return slots are 0, 0 and 0.0 until the first call.
C11_Frame ==
    /\ ret_low = Zeros(size_of_usize) /\ ret_high = Zeros(size_of_usize)
    /\ ret_float = Zeros(8)
    /\ [][ /\ func' = func
           /\ IsCallStep => (args' = args /\ fargs' = fargs)
           /\ (IsCallStep /\ atcall.conv # "none" /\ ~crashed') =>
                 /\ atcall'.conv = atcall.conv
                 /\ ArgLayout(atcall') = ArgLayout(atcall)
           /\ IsPushStep =>
                 /\ ret_low' = ret_low /\ ret_high' = ret_high /\ ret_float' = ret_float
                 /\ IsPrefix(args, args') /\ IsPrefix(fargs, fargs')
                 /\ (args' = args) # (fargs' = fargs)
           /\ ncalls' = 0 =>
                 /\ ret_low' = Zeros(size_of_usize) /\ ret_high' = Zeros(size_of_usize)
                 /\ ret_float' = Zeros(8) ]_vars

\* a second call, made after a push that followed the first call, with the
\* eight queued arguments still in place
C11_Witness ==
    /\ arch = "x86_64"
    /\ ncalls = 2
    /\ JustCalled("cdecl")
    /\ Len(args) = 7
    /\ Len(fargs) = 1
    /\ atcall.gpr["rdi"] = <<1, 0, 0, 0, 0, 0, 0, 0>>
    /\ atcall.stk = << <<8, 0, 0, 0, 0, 0, 0, 0>> >>
    /\ atcall.xmm[0] = <<2, 0, 0, 0, 0, 0, 240, 63>>
    /\ ret_low = Ramp(8)

====
